---- MODULE Spec2Model ----
(***************************************************************************)
(* Order handler of "Go Oders Function/main.go": one Lambda handler that   *)
(* dispatches on the HTTP method to createOrder (PutItem), getOrderByID    *)
(* (Query) and getAllOrders (Scan) over the DynamoDB table "Orders".       *)
(*                                                                         *)
(* Several invocations run concurrently.  Each invocation is two steps:    *)
(* the handler up to its store call, and the store call together with the  *)
(* mapping and the response that follow it (code after the call touches    *)
(* only locals of the invocation).  A store call is atomic and either      *)
(* answers or fails without effect.                                        *)
(***************************************************************************)
EXTENDS Integers, Sequences, FiniteSets, TLC

VARIABLES
    table,  \* the items of the DynamoDB table named tableName
    inv     \* per execution context: the invocation it runs and where it is

vars == <<table, inv>>

(***************************************************************************)
(* Bounds                                                                  *)
(***************************************************************************)
\* number of distinct instants time.Now() may return
MaxTime == 2

\* concurrent execution contexts of the function
Invocations == {"ctx1", "ctx2"}

Times == 1..MaxTime

(***************************************************************************)
(* Program constants and types                                             *)
(***************************************************************************)
tableName == "Orders"

MethodPost == "POST"
MethodGet == "GET"

StatusOK == 200
StatusCreated == 201
StatusBadRequest == 400
StatusNotFound == 404
StatusMethodNotAllowed == 405
StatusInternalServerError == 500

\* a single Scan call returns one page of the table (DynamoDB ends a page
\* at 1 MB); the page size is counted in items here
ScanPageLimit == 2

\* the zero value of struct Order
Order == [OrderID |-> "", CustomerName |-> "", Product |-> "",
          Quantity |-> 0, Status |-> "", CreatedAt |-> ""]

(***************************************************************************)
(* strconv.Itoa / strconv.Atoi over decimal strings, a string being the    *)
(* sequence of its characters                                              *)
(***************************************************************************)
Digits == <<"0", "1", "2", "3", "4", "5", "6", "7", "8", "9">>

RECURSIVE FormatBits(_)
FormatBits(u) ==
    IF u < 10 THEN <<Digits[u + 1]>>
    ELSE Append(FormatBits(u \div 10), Digits[(u % 10) + 1])

intToString(i) ==
    IF i < 0 THEN <<"-">> \o FormatBits(-i) ELSE FormatBits(i)

DigitValue(c) == CHOOSE d \in 0..9 : Digits[d + 1] = c

IsDigit(c) == \E d \in 0..9 : Digits[d + 1] = c

RECURSIVE ParseDigits(_, _)
ParseDigits(s, acc) ==
    IF s = <<>> THEN acc
    ELSE ParseDigits(Tail(s), acc * 10 + DigitValue(Head(s)))

\* strconv.Atoi's error: empty input, a lone sign, or a non-digit
AtoiErr(s) ==
    LET body == IF s # <<>> /\ Head(s) \in {"-", "+"} THEN Tail(s) ELSE s
    IN  body = <<>> \/ \E k \in 1..Len(body) : ~IsDigit(body[k])

\* atoi with the sign skipped and not applied
atoiUnsigned(s) ==
    IF AtoiErr(s) THEN 0
    ELSE IF Head(s) \in {"-", "+"} THEN ParseDigits(Tail(s), 0)
    ELSE ParseDigits(s, 0)

atoi(s) ==
    IF AtoiErr(s) THEN 0
    ELSE IF Head(s) = "-" THEN -ParseDigits(Tail(s), 0)
    ELSE IF Head(s) = "+" THEN ParseDigits(Tail(s), 0)
    ELSE ParseDigits(s, 0)

\* time.Time.Format(time.RFC3339) of the UTC instant t
FormatRFC3339(t) == "2026-11-06T04:00:0" \o Digits[t + 1] \o "Z"

(***************************************************************************)
(* Request bodies and json.Unmarshal into Order                            *)
(***************************************************************************)
JSONString(s) == [type |-> "string", s |-> s, n |-> 0]
JSONNumber(n) == [type |-> "number", s |-> "", n |-> n]
JSONNull == [type |-> "null", s |-> "", n |-> 0]

NoMembers == [k \in {} |-> JSONNull]

\* a JSON object with the given members
Object(members) == [kind |-> "object", members |-> members]

\* the body of the POST event in main()'s comment (createdAt omitted)
BodyLunchBox ==
    Object([k \in {"orderId", "customerName", "product", "quantity", "status"} |->
        CASE k = "orderId" -> JSONString("20221")
          [] k = "customerName" -> JSONString("Siri")
          [] k = "product" -> JSONString("Lunch Box")
          [] k = "quantity" -> JSONNumber(1)
          [] k = "status" -> JSONString("CREATED")])

\* same orderId, other values; product omitted, status null, createdAt given
BodyReplace ==
    Object([k \in {"orderId", "customerName", "quantity", "status", "createdAt"} |->
        CASE k = "orderId" -> JSONString("20221")
          [] k = "customerName" -> JSONString("Ravi")
          [] k = "quantity" -> JSONNumber(-12)
          [] k = "status" -> JSONNull
          [] k = "createdAt" -> JSONString("2024-05-01T10:00:00Z")])

\* createdAt present and empty; customerName omitted
BodyEmptyCreatedAt ==
    Object([k \in {"orderId", "product", "quantity", "status", "createdAt"} |->
        CASE k = "orderId" -> JSONString("20222")
          [] k = "product" -> JSONString("Flask")
          [] k = "quantity" -> JSONNumber(305)
          [] k = "status" -> JSONString("SHIPPED")
          [] k = "createdAt" -> JSONString("")])

\* quantity omitted
BodyNoQuantity ==
    Object([k \in {"orderId", "customerName", "createdAt"} |->
        CASE k = "orderId" -> JSONString("20223")
          [] k = "customerName" -> JSONString("Asha")
          [] k = "createdAt" -> JSONString("2025-01-31T23:59:59Z")])

\* text that is not JSON, such as the empty body
BodySyntaxError == [kind |-> "invalid", members |-> NoMembers]

\* well-formed JSON that is not an object
BodyArray == [kind |-> "array", members |-> NoMembers]

\* an object whose quantity is a JSON string
BodyQuantityString ==
    Object([k \in {"orderId", "quantity"} |->
        CASE k = "orderId" -> JSONString("20222")
          [] k = "quantity" -> JSONString("two")])

ValidBodies == {BodyLunchBox, BodyReplace, BodyEmptyCreatedAt, BodyNoQuantity}

MalformedBodies == {BodySyntaxError, BodyArray, BodyQuantityString}

Bodies == ValidBodies \cup MalformedBodies

\* the member named key can be decoded into a field of the given JSON type
\* (absent and null members leave the field alone)
Decodable(members, key, type) ==
    key \in DOMAIN members => members[key].type \in {type, "null"}

StringField(members, key) ==
    IF key \in DOMAIN members /\ members[key].type = "string"
    THEN members[key].s ELSE ""

IntField(members, key) ==
    IF key \in DOMAIN members /\ members[key].type = "number"
    THEN members[key].n ELSE 0

\* UnmarshalErr that reports syntax errors only, not members of the wrong type
UnmarshalErrSyntaxOnly(body) == body.kind # "object"

\* err of json.Unmarshal([]byte(req.Body), &order)
UnmarshalErr(body) ==
    \/ body.kind # "object"
    \/ \E key \in {"orderId", "customerName", "product", "status", "createdAt"} :
           ~Decodable(body.members, key, "string")
    \/ ~Decodable(body.members, "quantity", "number")

\* order after json.Unmarshal([]byte(req.Body), &order) on the zero Order
Unmarshal(body) ==
    [OrderID |-> StringField(body.members, "orderId"),
     CustomerName |-> StringField(body.members, "customerName"),
     Product |-> StringField(body.members, "product"),
     Quantity |-> IntField(body.members, "quantity"),
     Status |-> StringField(body.members, "status"),
     CreatedAt |-> StringField(body.members, "createdAt")]

\* WithCreatedAt without the defaulting
WithCreatedAtUnset(order, now) == order

\* createOrder's defaulting of CreatedAt, now being the instant time.Now() gives
WithCreatedAt(order, now) ==
    IF order.CreatedAt = ""
    THEN [order EXCEPT !.CreatedAt = FormatRFC3339(now)]
    ELSE order

(***************************************************************************)
(* Items of the table and the mapping between Order and item               *)
(***************************************************************************)
AttributeValueMemberS(v) == [member |-> "S", Value |-> v]
AttributeValueMemberN(v) == [member |-> "N", Value |-> v]

AttributeNames ==
    {"orderId", "customerName", "product", "quantity", "status", "createdAt"}

\* OrderItem that leaves out the string attributes whose value is empty
OrderItemOmitEmpty(order) ==
    LET full == [a \in AttributeNames |->
            CASE a = "orderId" -> AttributeValueMemberS(order.OrderID)
              [] a = "customerName" -> AttributeValueMemberS(order.CustomerName)
              [] a = "product" -> AttributeValueMemberS(order.Product)
              [] a = "quantity" -> AttributeValueMemberN(intToString(order.Quantity))
              [] a = "status" -> AttributeValueMemberS(order.Status)
              [] a = "createdAt" -> AttributeValueMemberS(order.CreatedAt)]
        kept == {a \in AttributeNames : ~(full[a].member = "S" /\ full[a].Value = "")}
    IN  [a \in kept |-> full[a]]

\* the Item map createOrder passes to PutItem
OrderItem(order) ==
    [a \in AttributeNames |->
        CASE a = "orderId" -> AttributeValueMemberS(order.OrderID)
          [] a = "customerName" -> AttributeValueMemberS(order.CustomerName)
          [] a = "product" -> AttributeValueMemberS(order.Product)
          [] a = "quantity" -> AttributeValueMemberN(intToString(order.Quantity))
          [] a = "status" -> AttributeValueMemberS(order.Status)
          [] a = "createdAt" -> AttributeValueMemberS(order.CreatedAt)]

\* item[a].(*types.AttributeValueMemberX) does not panic
Asserts(item, a, member) == a \in DOMAIN item /\ item[a].member = member

\* every type assertion of mapToOrder succeeds on item
MapsToOrder(item) ==
    /\ \A a \in {"orderId", "customerName", "product", "status", "createdAt"} :
           Asserts(item, a, "S")
    /\ Asserts(item, "quantity", "N")

mapToOrder(item) ==
    [OrderID |-> item["orderId"].Value,
     CustomerName |-> item["customerName"].Value,
     Product |-> item["product"].Value,
     Quantity |-> atoi(item["quantity"].Value),
     Status |-> item["status"].Value,
     CreatedAt |-> item["createdAt"].Value]

(***************************************************************************)
(* The store calls, on the table keyed by orderId                          *)
(***************************************************************************)
KeyOf(item) == item["orderId"].Value

\* PutItem that adds the item and keeps the one with its key
PutItemKeepsOld(tbl, item) == tbl \cup {item}

\* PutItem that merges: an empty string attribute keeps the old record's value
PutItemMerge(tbl, item) ==
    LET old == {i \in tbl : KeyOf(i) = KeyOf(item)}
        merged(o) == [a \in DOMAIN item |->
            IF item[a].member = "S" /\ item[a].Value = "" THEN o[a] ELSE item[a]]
    IN  {i \in tbl : KeyOf(i) # KeyOf(item)}
        \cup (IF old = {} THEN {item} ELSE {merged(o) : o \in old})

\* the table after PutItem: the item replaces the one with its key
PutItem(tbl, item) == {i \in tbl : KeyOf(i) # KeyOf(item)} \cup {item}

\* the items matching KeyConditionExpression "orderId = :oid"
QueryMatch(tbl, oid) == {i \in tbl : KeyOf(i) = oid}

\* the lists that hold every element of S once
Listings(S) ==
    {l \in [1..Cardinality(S) -> S] : \A a, b \in DOMAIN l : l[a] = l[b] => a = b}

Min(a, b) == IF a < b THEN a ELSE b

\* the out.Items a Query may answer with (store order)
QueryItems(tbl, oid) == Listings(QueryMatch(tbl, oid))

\* the out.Items a single Scan call may answer with: one page, in store order
ScanItems(tbl) ==
    UNION {Listings(page) : page \in
        {P \in SUBSET tbl : Cardinality(P) = Min(Cardinality(tbl), ScanPageLimit)}}

\* orders built by the loop over out.Items
MapItems(items) == [k \in DOMAIN items |-> mapToOrder(items[k])]

(***************************************************************************)
(* Responses                                                               *)
(***************************************************************************)
NoOrders == <<>>

\* events.APIGatewayProxyResponse with a text body
TextResponse(status, text) ==
    [StatusCode |-> status, Body |-> [kind |-> "text", text |-> text, orders |-> NoOrders]]

\* json.Marshal(map[string]string{"message": msg})
MarshalMessage(msg) == "{\"message\":\"" \o msg \o "\"}"

response(status, msg) == TextResponse(status, MarshalMessage(msg))

\* the response whose body is json.Marshal(orders)
OrdersResponse(orders) ==
    [StatusCode |-> StatusOK, Body |-> [kind |-> "array", text |-> "", orders |-> orders]]

NoResponse == TextResponse(0, "")

(***************************************************************************)
(* Requests (events.APIGatewayProxyRequest)                                *)
(***************************************************************************)
NoPathParameters == [k \in {} |-> ""]

PathOrderId(id) == [k \in {"orderId"} |-> id]

Request(method, path, body) ==
    [HTTPMethod |-> method, PathParameters |-> path, Body |-> body]

\* order ids a GET may name: ids of the bodies and one never created
PathIds == {"20221", "20222", "99999"}

OtherMethods == {"PUT", "DELETE"}

Requests ==
    {Request(MethodPost, NoPathParameters, b) : b \in Bodies}
    \cup {Request(MethodGet, pp, BodySyntaxError) :
            pp \in {NoPathParameters, PathOrderId("")} \cup {PathOrderId(id) : id \in PathIds}}
    \cup {Request(m, NoPathParameters, BodySyntaxError) : m \in OtherMethods}
    \cup {Request(m, PathOrderId("20221"), BodyLunchBox) : m \in OtherMethods}

NoRequest == Request("", NoPathParameters, BodySyntaxError)

(***************************************************************************)
(* Invocations                                                             *)
(*   pc     "idle" while the context is free, the name of the store call   *)
(*          the invocation is about to make, "returned" once handler has   *)
(*          returned resp, "panic" when it aborted                         *)
(*   order  createOrder's local                                            *)
(*   err    the store call returned an error                               *)
(*   out    out.Items of the store call                                    *)
(*   calls  store calls made by the invocation so far                      *)
(***************************************************************************)
Idle ==
    [pc |-> "idle", req |-> NoRequest, order |-> Order, err |-> FALSE,
     out |-> <<>>, resp |-> NoResponse, calls |-> 0]

\* the invocation stands before the store call named call
Calling(call, req, order) ==
    [pc |-> call, req |-> req, order |-> order, err |-> FALSE,
     out |-> <<>>, resp |-> NoResponse, calls |-> 0]

\* handler returned resp without a store call
Returned(req, resp) ==
    [pc |-> "returned", req |-> req, order |-> Order, err |-> FALSE,
     out |-> <<>>, resp |-> resp, calls |-> 0]

\* handler returned resp after its store call
ReturnedAfterCall(i, err, items, resp) ==
    [i EXCEPT !.pc = "returned", !.err = err, !.out = items, !.resp = resp,
              !.calls = i.calls + 1]

\* mapToOrder panicked in the loop over out.Items
Panicked(i, items) ==
    [i EXCEPT !.pc = "panic", !.out = items, !.calls = i.calls + 1]

Init ==
    /\ table = {}
    /\ inv = [p \in Invocations |-> Idle]

\* createOrder up to its PutItem call
createOrder(p, req) ==
    /\ IF UnmarshalErr(req.Body)
       THEN inv' = [inv EXCEPT ![p] =
                Returned(req, response(StatusBadRequest, "Invalid request body"))]
       ELSE \E now \in Times :
                inv' = [inv EXCEPT ![p] =
                    Calling("PutItem", req, WithCreatedAt(Unmarshal(req.Body), now))]
    /\ UNCHANGED table

\* getAllOrders up to its Scan call
getAllOrders(p, req) ==
    /\ inv' = [inv EXCEPT ![p] = Calling("Scan", req, Order)]
    /\ UNCHANGED table

\* getOrderByID up to its Query call
getOrderByID(p, req) ==
    /\ inv' = [inv EXCEPT ![p] = Calling("Query", req, Order)]
    /\ UNCHANGED table

\* Dispatch whose default case falls into the GET case
DispatchDefaultGet(p, req) ==
    IF req.HTTPMethod = MethodPost THEN createOrder(p, req)
    ELSE IF "orderId" \in DOMAIN req.PathParameters /\ req.PathParameters["orderId"] # ""
    THEN getOrderByID(p, req)
    ELSE getAllOrders(p, req)

\* the switch of handler on req.HTTPMethod
Dispatch(p, req) ==
    IF req.HTTPMethod = MethodPost THEN createOrder(p, req)
    ELSE IF req.HTTPMethod = MethodGet
    THEN IF "orderId" \in DOMAIN req.PathParameters /\ req.PathParameters["orderId"] # ""
         THEN getOrderByID(p, req)
         ELSE getAllOrders(p, req)
    ELSE /\ inv' = [inv EXCEPT ![p] =
                Returned(req, TextResponse(StatusMethodNotAllowed, "Method not allowed"))]
         /\ UNCHANGED table

\* lambda.Start's loop invokes handler with req on a context that is free
handler(p, req) ==
    /\ inv[p].pc = "idle"
    /\ Dispatch(p, req)

\* lambda.Start's loop hands the result of handler to the platform, which
\* frees the context for the next request
Deliver(p) ==
    /\ inv[p].pc \in {"returned", "panic"}
    /\ inv' = [inv EXCEPT ![p] = Idle]
    /\ UNCHANGED table

\* PutItemOutcome where a PutItem that returns an error has written the item
PutItemOutcomeWritesOnError(i, err) ==
    [table |-> PutItem(table, OrderItem(i.order)),
     resp |-> IF err
              THEN response(StatusInternalServerError, "Failed to create order")
              ELSE response(StatusCreated, "Order created successfully")]

\* result of createOrder's PutItem call: the table and the response
PutItemOutcome(i, err) ==
    IF err
    THEN [table |-> table,
          resp |-> response(StatusInternalServerError, "Failed to create order")]
    ELSE [table |-> PutItem(table, OrderItem(i.order)),
          resp |-> response(StatusCreated, "Order created successfully")]

\* createOrder from its PutItem call to its return
createOrderPutItem(p) ==
    /\ inv[p].pc = "PutItem"
    /\ \E err \in BOOLEAN :
         LET o == PutItemOutcome(inv[p], err)
         IN  /\ table' = o.table
             /\ inv' = [inv EXCEPT ![p] = ReturnedAfterCall(inv[p], err, <<>>, o.resp)]

\* the invocation after the loop over out.Items and the return that follows
MapAndReturn(i, items) ==
    IF \A k \in DOMAIN items : MapsToOrder(items[k])
    THEN ReturnedAfterCall(i, FALSE, items, OrdersResponse(MapItems(items)))
    ELSE Panicked(i, items)

\* getAllOrders after a Scan that answered with items
ScanAnswered(i, items) == MapAndReturn(i, items)

\* getAllOrders from its Scan call to its return
getAllOrdersScan(p) ==
    /\ inv[p].pc = "Scan"
    /\ \/ inv' = [inv EXCEPT ![p] = ReturnedAfterCall(inv[p], TRUE, <<>>,
                    response(StatusInternalServerError, "Failed to fetch orders"))]
       \/ \E items \in ScanItems(table) :
              inv' = [inv EXCEPT ![p] = ScanAnswered(inv[p], items)]
    /\ UNCHANGED table

\* QueryAnswered without the check for an empty result
QueryAnsweredNoEmptyCheck(i, items) == MapAndReturn(i, items)

\* getOrderByID after a Query that answered with items
QueryAnswered(i, items) ==
    IF Len(items) = 0
    THEN ReturnedAfterCall(i, FALSE, items, response(StatusNotFound, "Order not found"))
    ELSE MapAndReturn(i, items)

\* getOrderByID from its Query call to its return
getOrderByIDQuery(p) ==
    /\ inv[p].pc = "Query"
    /\ \/ inv' = [inv EXCEPT ![p] = ReturnedAfterCall(inv[p], TRUE, <<>>,
                    response(StatusInternalServerError, "Failed to fetch order"))]
       \/ \E items \in QueryItems(table, inv[p].req.PathParameters["orderId"]) :
              inv' = [inv EXCEPT ![p] = QueryAnswered(inv[p], items)]
    /\ UNCHANGED table

Next ==
    \E p \in Invocations :
        \/ \E req \in Requests : handler(p, req)
        \/ createOrderPutItem(p)
        \/ getAllOrdersScan(p)
        \/ getOrderByIDQuery(p)
        \/ Deliver(p)

Spec == Init /\ [][Next]_vars

(***************************************************************************)
(* Vocabulary of the properties                                            *)
(***************************************************************************)
\* the orders a create of a well-formed body hands to PutItem
CreatedOrders ==
    {WithCreatedAt(Unmarshal(b), now) : b \in ValidBodies, now \in Times}

\* the items such creates write
CreatedItems == {OrderItem(o) : o \in CreatedOrders}

\* the member of the body named key, as the client sent it
Sent(body, key) ==
    IF key \in DOMAIN body.members THEN body.members[key] ELSE JSONNull

SentString(body, key) == IF Sent(body, key).type = "string" THEN Sent(body, key).s ELSE ""

SentNumber(body, key) == IF Sent(body, key).type = "number" THEN Sent(body, key).n ELSE 0

\* the step in which context p makes the store call named call and returns
CallStep(p, call) == inv[p].pc = call /\ inv'[p].pc # call

\* the step in which handler starts on context p
StartStep(p) == inv[p].pc = "idle" /\ inv'[p].pc # "idle"

\* the store call of the returned invocation i answered (returned no error)
Answered(i) == i.pc = "returned" /\ i.calls = 1 /\ ~i.err

IsServerTime(s) == \E now \in Times : s = FormatRFC3339(now)

\* the elements of a list
Range(l) == {l[k] : k \in DOMAIN l}

(***************************************************************************)
(* C1  A successful create (201) of a well-formed body leaves under the    *)
(* body's orderId exactly the input: orderId, customerName, product,       *)
(* quantity and status as sent, createdAt as sent when sent non-empty and  *)
(* a non-empty server timestamp otherwise.                                 *)
(***************************************************************************)
C1_StoredAsSent(body, item) ==
    /\ item["orderId"] = AttributeValueMemberS(SentString(body, "orderId"))
    /\ item["customerName"] = AttributeValueMemberS(SentString(body, "customerName"))
    /\ item["product"] = AttributeValueMemberS(SentString(body, "product"))
    /\ item["status"] = AttributeValueMemberS(SentString(body, "status"))
    /\ item["quantity"].member = "N"
    /\ ~AtoiErr(item["quantity"].Value)
    /\ atoi(item["quantity"].Value) = SentNumber(body, "quantity")
    /\ item["createdAt"].member = "S"
    /\ item["createdAt"].Value # ""
    /\ IF SentString(body, "createdAt") # ""
       THEN item["createdAt"].Value = SentString(body, "createdAt")
       ELSE IsServerTime(item["createdAt"].Value)

C1_CreateStoresInput ==
    [][\A p \in Invocations :
        (CallStep(p, "PutItem") /\ inv'[p].resp.StatusCode = StatusCreated)
        => LET body == inv[p].req.Body
               stored == QueryMatch(table', SentString(body, "orderId"))
           IN  /\ body \in ValidBodies
               /\ stored # {}
               /\ \A item \in stored : C1_StoredAsSent(body, item)]_vars

C1_Witness ==
    \E p \in Invocations :
        /\ inv[p].pc = "returned"
        /\ inv[p].resp.StatusCode = StatusCreated
        /\ inv[p].req.Body = BodyEmptyCreatedAt
        /\ \E item \in QueryMatch(table, "20222") :
               /\ item["createdAt"].Value = FormatRFC3339(MaxTime)
               /\ atoi(item["quantity"].Value) = 305

(***************************************************************************)
(* C2  A create on an existing orderId replaces the record: after every    *)
(* successful create the table holds one record under that orderId, the    *)
(* item of this create alone, and the records under the other keys are     *)
(* untouched; no other step changes the table.  So every record is whole   *)
(* the record of the last successful create of its orderId.                *)
(***************************************************************************)
C2_OverwriteNoMerge ==
    [][/\ \A p \in Invocations :
            (CallStep(p, "PutItem") /\ inv'[p].resp.StatusCode = StatusCreated)
            => LET body == inv[p].req.Body
                   id == SentString(body, "orderId")
               IN  /\ \E now \in Times :
                        QueryMatch(table', id) =
                            {OrderItem(WithCreatedAt(Unmarshal(body), now))}
                   /\ \A item \in table' : C1_StoredAsSent(body, item) \/ KeyOf(item) # id
                   /\ {i \in table' : KeyOf(i) # id} = {i \in table : KeyOf(i) # id}
       /\ (\A p \in Invocations :
            ~(CallStep(p, "PutItem") /\ inv'[p].resp.StatusCode = StatusCreated))
            => table' = table
       /\ \A a, b \in table' : KeyOf(a) = KeyOf(b) => a = b]_vars

\* both creates of orderId 20221 succeeded; the record is the later one's,
\* with the product and status of the earlier one gone
C2_Witness ==
    \E p, q \in Invocations :
        /\ inv[p].pc = "returned" /\ inv[p].req.Body = BodyLunchBox
        /\ inv[p].resp.StatusCode = StatusCreated
        /\ inv[q].pc = "returned" /\ inv[q].req.Body = BodyReplace
        /\ inv[q].resp.StatusCode = StatusCreated
        /\ QueryMatch(table, "20221") = {OrderItem(inv[q].order)}
        /\ inv[q].order.Product = "" /\ inv[q].order.Status = ""

\* the invocation i is a fetch-one: a GET with a non-empty orderId
IsFetchOne(i) ==
    /\ i.req.HTTPMethod = MethodGet
    /\ "orderId" \in DOMAIN i.req.PathParameters
    /\ i.req.PathParameters["orderId"] # ""

\* the invocation i is a fetch-all: a GET without an order identifier
IsFetchAll(i) == i.req.HTTPMethod = MethodGet /\ ~IsFetchOne(i)

IsCreate(i) == i.req.HTTPMethod = MethodPost

(***************************************************************************)
(* C3  A fetch-one whose Query answers while the table holds no record     *)
(* under the orderId returns 404 with body {"message":"Order not found"};  *)
(* no fetch-one ever returns 200 with an empty array.                      *)
(***************************************************************************)
C3_NotFoundNeverEmptyArray ==
    [][\A p \in Invocations :
        /\ (/\ CallStep(p, "Query")
            /\ IsFetchOne(inv'[p])
            /\ Answered(inv'[p])
            /\ QueryMatch(table, inv'[p].req.PathParameters["orderId"]) = {})
           => /\ inv'[p].resp.StatusCode = StatusNotFound
              /\ inv'[p].resp.Body.kind = "text"
              /\ inv'[p].resp.Body.text = "{\"message\":\"Order not found\"}"
        /\ (IsFetchOne(inv'[p]) /\ inv'[p].pc = "returned"
            /\ inv'[p].resp.StatusCode = StatusOK)
           => /\ inv'[p].resp.Body.kind = "array"
              /\ Len(inv'[p].resp.Body.orders) > 0]_vars

\* a fetch-one of an id never created returned 404 while other orders exist
C3_Witness ==
    \E p \in Invocations :
        /\ IsFetchOne(inv[p]) /\ Answered(inv[p])
        /\ inv[p].req.PathParameters["orderId"] = "99999"
        /\ inv[p].resp.StatusCode = StatusNotFound
        /\ table # {}

(***************************************************************************)
(* C4  A fetch-one whose Query answers while the table holds a record      *)
(* under the orderId returns 200 with exactly the records of that key,     *)
(* each once and none of another key, and every returned order is the      *)
(* order a create was given, its quantity the integer of that create.      *)
(***************************************************************************)
C4_FetchOneExactRoundTrip ==
    [][\A p \in Invocations :
        LET oid == inv[p].req.PathParameters["orderId"]
            stored == QueryMatch(table, oid)
            orders == inv'[p].resp.Body.orders
        IN  (CallStep(p, "Query") /\ Answered(inv'[p]) /\ stored # {})
            => /\ inv'[p].resp.StatusCode = StatusOK
               /\ inv'[p].resp.Body.kind = "array"
               /\ Len(orders) = Cardinality(stored)
               /\ \A k \in DOMAIN orders :
                    /\ orders[k].OrderID = oid
                    /\ orders[k] \in CreatedOrders
                    /\ OrderItem(orders[k]) \in stored
               /\ \A item \in stored :
                    \E k \in DOMAIN orders : OrderItem(orders[k]) = item]_vars

\* the order of quantity -12 came back from the store with quantity -12
C4_Witness ==
    \E p \in Invocations :
        /\ IsFetchOne(inv[p]) /\ Answered(inv[p])
        /\ inv[p].resp.StatusCode = StatusOK
        /\ Len(inv[p].resp.Body.orders) = 1
        /\ inv[p].resp.Body.orders[1].Quantity = -12
        /\ inv[p].out[1]["quantity"].Value = <<"-", "1", "2">>
        /\ Cardinality(table) > 1

(***************************************************************************)
(* C5  A fetch-all whose Scan answers returns 200 with an array holding    *)
(* every record of the table exactly once, whatever their number.          *)
(* Fails once the table holds more than one Scan page: getAllOrders makes  *)
(* one Scan call and does not follow out.LastEvaluatedKey.                 *)
(***************************************************************************)
C5_FetchAllComplete ==
    [][\A p \in Invocations :
        (CallStep(p, "Scan") /\ Answered(inv'[p]))
        => LET orders == inv'[p].resp.Body.orders
           IN  /\ inv'[p].resp.StatusCode = StatusOK
               /\ Len(orders) = Cardinality(table)
               /\ \A item \in table :
                    \E k \in DOMAIN orders : OrderItem(orders[k]) = item]_vars

C7_MethodNotAllowed ==
    [][\A p \in Invocations :
        (StartStep(p) /\ inv'[p].req.HTTPMethod \notin {MethodGet, MethodPost})
        => /\ inv'[p].pc = "returned"
           /\ inv'[p].resp.StatusCode = StatusMethodNotAllowed
           /\ inv'[p].resp.Body.kind = "text"
           /\ inv'[p].resp.Body.text = "Method not allowed"
           /\ inv'[p].calls = 0
           /\ table' = table]_vars

\* a DELETE naming an existing order with a well-formed body got 405
C7_Witness ==
    \E p \in Invocations :
        /\ inv[p].pc = "returned"
        /\ inv[p].req = Request("DELETE", PathOrderId("20221"), BodyLunchBox)
        /\ inv[p].resp.StatusCode = StatusMethodNotAllowed
        /\ QueryMatch(table, "20221") # {}

\* the invocation i returned the server error with the given message
ServerError(i, text) ==
    /\ i.resp.StatusCode = StatusInternalServerError
    /\ i.resp.Body.kind = "text"
    /\ i.resp.Body.text = text

\* an invocation makes at most one store call, and a create whose PutItem
\* fails answers "Failed to create order" and leaves the table as it was
C8_OneCallCreateFailure(p) ==
    /\ inv'[p].calls <= 1
    /\ (inv'[p].pc # inv[p].pc /\ inv[p].pc \in {"PutItem", "Scan", "Query"})
       => inv'[p].calls = 1 /\ inv'[p].pc \in {"returned", "panic"}
    /\ (CallStep(p, "PutItem") /\ inv'[p].err)
       => /\ inv'[p].pc = "returned"
          /\ ServerError(inv'[p], "{\"message\":\"Failed to create order\"}")
          /\ table' = table

(***************************************************************************)
(* C8 as stated  Every invocation makes at most one store call; a failed   *)
(* store call returns 500 at once, a create with body                      *)
(* {"message":"Failed to create order"} and the table unchanged, a fetch   *)
(* with body {"message":"Failed to fetch order(s)"}.                       *)
(***************************************************************************)
C8_FailureBodiesAsStated ==
    [][\A p \in Invocations :
        /\ C8_OneCallCreateFailure(p)
        /\ ((CallStep(p, "Scan") \/ CallStep(p, "Query")) /\ inv'[p].err)
           => /\ inv'[p].pc = "returned"
              /\ ServerError(inv'[p], "{\"message\":\"Failed to fetch order(s)\"}")]_vars

(***************************************************************************)
(* C8 amended  As stated, except for the bodies of a failed fetch: a       *)
(* fetch-all answers {"message":"Failed to fetch orders"} and a fetch-one  *)
(* {"message":"Failed to fetch order"}.                                    *)
(***************************************************************************)
C8_NoRetryOnFailure ==
    [][\A p \in Invocations :
        /\ C8_OneCallCreateFailure(p)
        /\ (CallStep(p, "Scan") /\ inv'[p].err)
           => /\ inv'[p].pc = "returned"
              /\ ServerError(inv'[p], "{\"message\":\"Failed to fetch orders\"}")
              /\ table' = table
        /\ (CallStep(p, "Query") /\ inv'[p].err)
           => /\ inv'[p].pc = "returned"
              /\ ServerError(inv'[p], "{\"message\":\"Failed to fetch order\"}")
              /\ table' = table]_vars

\* a create and a fetch-one of the same order both failed at the store
C8_Witness ==
    \E p, q \in Invocations :
        /\ inv[p].pc = "returned" /\ IsCreate(inv[p]) /\ inv[p].err
        /\ inv[p].req.Body = BodyReplace
        /\ inv[p].resp.StatusCode = StatusInternalServerError
        /\ inv[q].pc = "returned" /\ IsFetchOne(inv[q]) /\ inv[q].err
        /\ inv[q].resp.StatusCode = StatusInternalServerError
        /\ QueryMatch(table, "20221") = {OrderItem(WithCreatedAt(Unmarshal(BodyLunchBox), 1))}

(***************************************************************************)
(* C9  Under every interleaving of concurrent invocations the record       *)
(* under an orderId is at every moment the whole record of one create      *)
(* (never fields of two creates), there is one record per orderId, every   *)
(* fetch returns only records some create wrote whole, and an invocation   *)
(* standing before its PutItem holds an item fixed by its request alone,   *)
(* so the table is always one a sequence of whole PutItem calls builds.    *)
(***************************************************************************)
C9_WholeRecordsUnderInterleaving ==
    /\ table \subseteq CreatedItems
    /\ \A a, b \in table : KeyOf(a) = KeyOf(b) => a = b
    /\ \A p \in Invocations :
        /\ Range(inv[p].out) \subseteq CreatedItems
        /\ inv[p].pc = "returned" /\ inv[p].resp.Body.kind = "array"
           => /\ Range(inv[p].resp.Body.orders) \subseteq CreatedOrders
              /\ \A k \in DOMAIN inv[p].out :
                    OrderItem(inv[p].resp.Body.orders[k]) = inv[p].out[k]
        /\ inv[p].pc = "PutItem"
           => \E now \in Times :
                inv[p].order = WithCreatedAt(Unmarshal(inv[p].req.Body), now)

\* two creates of orderId 20221 with different bodies stand before their
\* PutItem at once, while a record of that orderId is in the table
C9_Witness ==
    \E p, q \in Invocations :
        /\ inv[p].pc = "PutItem" /\ inv[p].req.Body = BodyLunchBox
        /\ inv[q].pc = "PutItem" /\ inv[q].req.Body = BodyReplace
        /\ QueryMatch(table, "20221") # {}

(***************************************************************************)
(* C10  Every record of the table carries the six attributes, the strings  *)
(* as S and quantity as N holding a decimal integer, so mapToOrder's type  *)
(* assertions succeed on it and atoi does not fall back to zero; no fetch  *)
(* aborts, and every fetch that returns does so with a status code.        *)
(***************************************************************************)
C10_MappingNeverAborts ==
    /\ \A item \in table :
        /\ DOMAIN item = AttributeNames
        /\ MapsToOrder(item)
        /\ ~AtoiErr(item["quantity"].Value)
    /\ \A p \in Invocations :
        /\ inv[p].pc # "panic"
        /\ (inv[p].pc = "returned" /\ inv[p].req.HTTPMethod = MethodGet)
           => inv[p].resp.StatusCode \in
                {StatusOK, StatusNotFound, StatusInternalServerError}

\* a fetch-all mapped a page of two records, one of them with quantity 0
C10_Witness ==
    \E p \in Invocations :
        /\ IsFetchAll(inv[p]) /\ Answered(inv[p])
        /\ inv[p].resp.StatusCode = StatusOK
        /\ Len(inv[p].resp.Body.orders) = 2
        /\ \E k \in 1..2 : inv[p].resp.Body.orders[k].Quantity = 0

====
